---- MODULE Spec2Model ----
(***************************************************************************)
(* A model of the radix-tree router of src/src/tree.rs.                    *)
(*                                                                         *)
(* A string is a sequence of one-character strings.  A Node is a record    *)
(* with the fields of the Rust struct; an Option is a sequence of length   *)
(* 0 (None) or 1 (Some).  The handler map is a function over the methods   *)
(* in use whose value NoHandler stands for an absent key.                  *)
(*                                                                         *)
(* A panic unwinds: an operator that can panic returns the node as the     *)
(* unwinding leaves it together with the name of the panic.                *)
(***************************************************************************)
EXTENDS Integers, Sequences, FiniteSets, TLC

VARIABLES root, routes, call, result

vars == <<root, routes, call, result>>

\* The methods the calls of the model use (two of the nine of method.rs).
Methods == {"GET", "POST"}

\* The handler values the calls of the model register.
Values == {"H1", "H2"}

NoHandler == "none"

(***************************************************************************)
(* Strings                                                                 *)
(***************************************************************************)
Take(s, n) == SubSeq(s, 1, IF n < Len(s) THEN n ELSE Len(s))

Skip(s, n) == SubSeq(s, n + 1, Len(s))

StartsWith(s, p) == Len(p) <= Len(s) /\ SubSeq(s, 1, Len(p)) = p

\* path.chars().position(|c| c == '/'): the 0-based index of the first '/',
\* Len(s) when there is none (the callers' unwrap_or(path_len)).
SlashPos(s) ==
    IF \E i \in 1..Len(s) : s[i] = "/"
    THEN (CHOOSE i \in 1..Len(s) : s[i] = "/" /\ \A j \in 1..(i - 1) : s[j] # "/") - 1
    ELSE Len(s)

HasSlash(s) == \E i \in 1..Len(s) : s[i] = "/"

\* path.chars().zip(other.chars()).take_while(|(l, r)| l == r).count()
CommonLen(s, t) ==
    LET m == IF Len(s) < Len(t) THEN Len(s) ELSE Len(t)
        D == {i \in 1..m : s[i] # t[i]}
    IN IF D = {} THEN m ELSE (CHOOSE i \in D : \A j \in D : i <= j) - 1

strip_start_slash(path) ==
    IF StartsWith(path, <<"/">>) THEN Skip(path, 1) ELSE path

(***************************************************************************)
(* Node                                                                    *)
(***************************************************************************)
DefaultNode ==
    [path |-> <<>>,
     static_indices |-> <<>>,
     static_child |-> <<>>,
     param_child |-> <<>>,
     star_child |-> <<>>,
     leaf_handler |-> [m \in Methods |-> NoHandler],
     leaf_param_names |-> <<>>]

NewNode == [DefaultNode EXCEPT !.path = <<"/">>]

HandlerIsEmpty(node) == \A m \in Methods : node.leaf_handler[m] = NoHandler

\* The position in static_indices of the first key equal to c, 0 when none.
IndexOf(node, c) ==
    LET S == {i \in 1..Len(node.static_indices) : node.static_indices[i] = c}
    IN IF S = {} THEN 0 ELSE CHOOSE i \in S : \A j \in S : i <= j

RemoveAt(seq, i) == SubSeq(seq, 1, i - 1) \o SubSeq(seq, i + 1, Len(seq))

set_handler(self, method, value) ==
    IF self.leaf_handler[method] # NoHandler
    THEN [node |-> self, err |-> "DuplicateRoute"]
    ELSE [node |-> [self EXCEPT !.leaf_handler[method] = value], err |-> "ok"]

\* update_handler that puts a map with the one entry in place of the map.
update_handler_replaces_map(self, method, value) ==
    IF self.leaf_handler[method] = NoHandler
    THEN [node |-> self, err |-> "NoSuchMethod"]
    ELSE [node |-> [self EXCEPT !.leaf_handler =
                        [m \in Methods |-> IF m = method THEN value ELSE NoHandler]],
          err |-> "ok"]

update_handler(self, method, value) ==
    IF self.leaf_handler[method] = NoHandler
    THEN [node |-> self, err |-> "NoSuchMethod"]
    ELSE [node |-> [self EXCEPT !.leaf_handler[method] = value], err |-> "ok"]

\* split_common_prefix that leaves the whole segment on the node it moves
\* below the common prefix.
split_common_prefix_keeps_child_path(self, i, path) ==
    LET child_node == self.static_child[i]
    IN IF StartsWith(path, child_node.path)
       THEN [node |-> self, len |-> Len(child_node.path)]
       ELSE LET len == CommonLen(path, child_node.path)
                child_path == Skip(child_node.path, len)
                new_node == [DefaultNode EXCEPT
                                !.path = Take(path, len),
                                !.static_indices = <<child_path[1]>>,
                                !.static_child = <<child_node>>]
            IN [node |-> [self EXCEPT !.static_child[i] = new_node], len |-> len]

\* Returns the node after the split and the length of the common prefix.
split_common_prefix(self, i, path) ==
    LET child_node == self.static_child[i]
    IN IF StartsWith(path, child_node.path)
       THEN [node |-> self, len |-> Len(child_node.path)]
       ELSE LET len == CommonLen(path, child_node.path)
                child_path == Skip(child_node.path, len)
                new_node == [DefaultNode EXCEPT
                                !.path = Take(path, len),
                                !.static_indices = <<child_path[1]>>,
                                !.static_child = <<[child_node EXCEPT !.path = child_path]>>]
            IN [node |-> [self EXCEPT !.static_child[i] = new_node], len |-> len]

\* check_param_names that compares the number of names only.
check_param_names_count_only(self, param_names) ==
    IF param_names = <<>> \/ self.leaf_param_names = <<>>
    THEN "ok"
    ELSE IF Len(param_names[1]) # Len(self.leaf_param_names[1])
    THEN "ParamCountBug"
    ELSE "ok"

\* insert_path at a leaf: the panic that comparing the parameter names of
\* the call with those the leaf stores raises, "ok" when there is none.
check_param_names(self, param_names) ==
    IF param_names = <<>> \/ self.leaf_param_names = <<>>
    THEN "ok"
    ELSE IF Len(param_names[1]) # Len(self.leaf_param_names[1])
    THEN "ParamCountBug"
    ELSE IF param_names[1] # self.leaf_param_names[1]
    THEN "AmbiguousParams"
    ELSE "ok"

\* push_param_name that starts the list again at every parameter.
push_param_name_alone(param_names, token) == <<<<token>>>>

\* The names handed down past a parameter token: the names so far with the
\* token's name appended, or the one name when there were none.
push_param_name(param_names, token) ==
    IF param_names = <<>>
    THEN <<<<token>>>>
    ELSE <<Append(param_names[1], token)>>

RECURSIVE insert_path(_, _, _, _, _)
\* Returns [node, err]: the node after the call and "ok", or the node as the
\* unwinding leaves it and the panic.  param_names is an Option<Vec<String>>.
insert_path(self, method, path, value, param_names) ==
    IF path = <<>>
    THEN IF check_param_names(self, param_names) # "ok"
         THEN [node |-> self, err |-> check_param_names(self, param_names)]
         ELSE IF param_names # <<>> /\ self.leaf_param_names = <<>>
         THEN set_handler([self EXCEPT !.leaf_param_names = param_names], method, value)
         ELSE set_handler(self, method, value)
    ELSE
    LET first_char == path[1]
        token_end == IF first_char = "/" THEN 1 ELSE SlashPos(path)
        token == IF first_char = "/" THEN <<"/">> ELSE Take(path, token_end)
        remaining_path == Skip(path, token_end)
    IN IF first_char = "$"
       THEN LET name == Skip(token, 1)
                with_child == IF self.param_child = <<>>
                              THEN [self EXCEPT !.param_child =
                                        <<[DefaultNode EXCEPT !.path = name]>>]
                              ELSE self
                names == push_param_name(param_names, name)
                rec == insert_path(with_child.param_child[1], method,
                                   remaining_path, value, names)
            IN [node |-> [with_child EXCEPT !.param_child = <<rec.node>>],
                err |-> rec.err]
       ELSE IF first_char = "*"
       THEN IF path # <<"*">>
            THEN [node |-> self, err |-> "CharsAfterStar"]
            ELSE LET star == IF self.star_child = <<>> THEN DefaultNode
                             ELSE self.star_child[1]
                     set == set_handler(star, method, value)
                 IN IF set.err # "ok"
                    THEN [node |-> [self EXCEPT !.star_child = <<star>>],
                          err |-> set.err]
                    ELSE [node |-> [self EXCEPT !.star_child =
                                       <<[set.node EXCEPT
                                            !.leaf_param_names = param_names]>>],
                          err |-> "ok"]
       ELSE LET i == IndexOf(self, first_char)
            IN IF i # 0
               THEN IF i > Len(self.static_child)
                    THEN [node |-> self, err |-> "UnwrapNone"]
                    ELSE LET sp == split_common_prefix(self, i, token)
                             rec == insert_path(sp.node.static_child[i], method,
                                                Skip(path, sp.len), value,
                                                param_names)
                         IN [node |-> [sp.node EXCEPT !.static_child[i] = rec.node],
                             err |-> rec.err]
               ELSE LET pushed == [self EXCEPT
                                     !.static_indices = Append(@, first_char)]
                        rec == insert_path([DefaultNode EXCEPT !.path = token],
                                           method, remaining_path, value,
                                           param_names)
                    IN IF rec.err # "ok"
                       THEN [node |-> pushed, err |-> rec.err]
                       ELSE [node |-> [pushed EXCEPT
                                         !.static_child = Append(@, rec.node)],
                             err |-> "ok"]

\* IsDead that takes a node for empty only while its wildcard child is
\* still there.
IsDead_star_inverted(node) ==
    /\ HandlerIsEmpty(node)
    /\ node.static_child = <<>>
    /\ node.param_child = <<>>
    /\ node.star_child # <<>>

IsDead(node) ==
    /\ HandlerIsEmpty(node)
    /\ node.static_child = <<>>
    /\ node.param_child = <<>>
    /\ node.star_child = <<>>

\* The "Merge nodes" branch of remove_path: the static child, after the
\* recursive call, as it is stored back in its parent's slot.
MergeNodes(static_child) ==
    IF /\ HandlerIsEmpty(static_child)
       /\ Len(static_child.static_child) = 1
       /\ static_child.param_child = <<>>
       /\ static_child.path # <<"/">>
       /\ static_child.static_child[1].path # <<"/">>
    THEN [static_child.static_child[1] EXCEPT !.path = static_child.path \o @]
    ELSE static_child

RECURSIVE remove_path(_, _)
\* Returns [node, err]; err is a panic only on a tree whose key list is longer
\* than its child list.
remove_path(self, path) ==
    IF path = <<>>
    THEN [node |-> [self EXCEPT !.leaf_handler = [m \in Methods |-> NoHandler],
                                !.leaf_param_names = <<>>],
          err |-> "ok"]
    ELSE
    LET first_char == path[1]
        i == IndexOf(self, first_char)
    IN IF i # 0 /\ i > Len(self.static_child)
       THEN [node |-> self, err |-> "IndexOutOfBounds"]
       ELSE IF i # 0 /\ StartsWith(path, self.static_child[i].path)
       THEN LET rec == remove_path(self.static_child[i],
                                   Skip(path, Len(self.static_child[i].path)))
            IN IF rec.err # "ok"
               THEN [node |-> [self EXCEPT !.static_child[i] = rec.node],
                     err |-> rec.err]
               ELSE IF IsDead(rec.node)
               THEN [node |-> [self EXCEPT
                                 !.static_child = RemoveAt(@, i),
                                 !.static_indices = RemoveAt(@, i)],
                     err |-> "ok"]
               ELSE [node |-> [self EXCEPT !.static_child[i] = MergeNodes(rec.node)],
                     err |-> "ok"]
       ELSE IF StartsWith(path, <<"$">>) /\ self.param_child # <<>>
       THEN LET rec == remove_path(self.param_child[1], Skip(path, SlashPos(path)))
            IN IF rec.err = "ok" /\ HandlerIsEmpty(rec.node)
                  /\ rec.node.static_child = <<>>
               THEN [node |-> [self EXCEPT !.param_child = <<>>], err |-> "ok"]
               ELSE [node |-> [self EXCEPT !.param_child = <<rec.node>>],
                     err |-> rec.err]
       ELSE IF StartsWith(path, <<"*">>)
       THEN [node |-> [self EXCEPT !.star_child = <<>>], err |-> "ok"]
       ELSE [node |-> self, err |-> "ok"]

RECURSIVE update_path(_, _, _, _)
\* Returns [node, err].
update_path(self, method, path, value) ==
    IF path = <<>>
    THEN update_handler(self, method, value)
    ELSE
    LET first_char == path[1]
        i == IndexOf(self, first_char)
    IN IF i # 0 /\ i > Len(self.static_child)
       THEN [node |-> self, err |-> "IndexOutOfBounds"]
       ELSE IF i # 0 /\ StartsWith(path, self.static_child[i].path)
       THEN LET rec == update_path(self.static_child[i], method,
                                   Skip(path, Len(self.static_child[i].path)), value)
            IN [node |-> [self EXCEPT !.static_child[i] = rec.node], err |-> rec.err]
       ELSE IF StartsWith(path, <<"$">>) /\ self.param_child # <<>>
       THEN LET rec == update_path(self.param_child[1], method,
                                   Skip(path, SlashPos(path)), value)
            IN [node |-> [self EXCEPT !.param_child = <<rec.node>>], err |-> rec.err]
       ELSE IF StartsWith(path, <<"*">>) /\ self.star_child # <<>>
       THEN LET upd == update_handler(self.star_child[1], method, value)
            IN [node |-> [self EXCEPT !.star_child = <<upd.node>>], err |-> upd.err]
       ELSE [node |-> self, err |-> "ok"]

\* Option<MatchResult<V>>: None, and Some(MatchResult {value, param_names, param_values})
\* where value is NoHandler for the Rust None.
NoMatch ==
    [some |-> FALSE, value |-> NoHandler, param_names |-> <<>>,
     param_values |-> <<>>, err |-> "ok"]

SomeMatch(value, names, values) ==
    [some |-> TRUE, value |-> value, param_names |-> names,
     param_values |-> values, err |-> "ok"]

HasValue(m) == m.some /\ m.value # NoHandler

\* first_with_value with the parameter child tried before the static child.
first_with_value_param_first(found, by_param, by_star) ==
    IF by_param.err # "ok" \/ HasValue(by_param) THEN by_param
    ELSE IF found.err # "ok" \/ HasValue(found) THEN found
    ELSE IF HasValue(by_star) THEN by_star
    ELSE NoMatch

\* first_with_value that stops at the leaf the static child reached, whether
\* or not the leaf holds a handler for the method.
first_with_value_no_backtrack(found, by_param, by_star) ==
    IF found.err # "ok" \/ found.some THEN found
    ELSE IF by_param.err # "ok" \/ HasValue(by_param) THEN by_param
    ELSE IF HasValue(by_star) THEN by_star
    ELSE NoMatch

\* The order of internal_search's three attempts: the static child's result
\* when it holds a value, else the parameter child's, else the wildcard's.
first_with_value(found, by_param, by_star) ==
    IF found.err # "ok" \/ HasValue(found) THEN found
    ELSE IF by_param.err # "ok" \/ HasValue(by_param) THEN by_param
    ELSE IF HasValue(by_star) THEN by_star
    ELSE NoMatch

\* param_value_matches that takes the empty text too.
param_value_matches_empty(value) == TRUE

\* The test on the text a parameter child would consume: "Don't match on
\* empty value".
param_value_matches(value) == value # <<>>

\* leaf_match that turns to the node's wildcard child when the node holds no
\* handler for the method.
leaf_match_or_star(self, method) ==
    IF self.leaf_handler[method] = NoHandler /\ self.star_child # <<>>
    THEN SomeMatch(self.star_child[1].leaf_handler[method],
                   IF self.star_child[1].leaf_param_names = <<>> THEN <<>>
                   ELSE self.star_child[1].leaf_param_names[1],
                   <<>>)
    ELSE IF HandlerIsEmpty(self)
    THEN NoMatch
    ELSE SomeMatch(self.leaf_handler[method],
                   IF self.leaf_param_names = <<>> THEN <<>>
                   ELSE self.leaf_param_names[1],
                   <<>>)

\* The result of internal_search when no character of the path remains: the
\* node's own handlers answer, and no child is consulted.
leaf_match(self, method) ==
    IF HandlerIsEmpty(self)
    THEN NoMatch
    ELSE SomeMatch(self.leaf_handler[method],
                   IF self.leaf_param_names = <<>> THEN <<>>
                   ELSE self.leaf_param_names[1],
                   <<>>)

RECURSIVE internal_search(_, _, _)
internal_search(self, method, path) ==
    IF path = <<>>
    THEN leaf_match(self, method)
    ELSE
    LET first_char == path[1]
        i == IndexOf(self, first_char)
    IN IF i # 0 /\ i > Len(self.static_child)
       THEN [NoMatch EXCEPT !.err = "IndexOutOfBounds"]
       ELSE
       LET found == IF i # 0 /\ StartsWith(path, self.static_child[i].path)
                    THEN internal_search(self.static_child[i], method,
                                         Skip(path, Len(self.static_child[i].path)))
                    ELSE NoMatch
           next_slash == SlashPos(path)
           value == Take(path, next_slash)
           match_result == IF self.param_child # <<>> /\ param_value_matches(value)
                           THEN internal_search(self.param_child[1], method,
                                                Skip(path, next_slash))
                           ELSE NoMatch
           by_param == IF HasValue(match_result)
                       THEN [match_result EXCEPT !.param_values = <<value>> \o @]
                       ELSE match_result
           by_star == IF self.star_child # <<>>
                      THEN SomeMatch(self.star_child[1].leaf_handler[method],
                                     IF self.star_child[1].leaf_param_names = <<>>
                                     THEN <<>>
                                     ELSE self.star_child[1].leaf_param_names[1],
                                     <<>>)
                      ELSE NoMatch
       IN first_with_value(found, by_param, by_star)

\* MatchResult::from_params: the (name, value) pairs, or the panic of
\* param_values.get(index).unwrap() when a name has no value.
from_params(m) ==
    IF Len(m.param_names) > Len(m.param_values)
    THEN [params |-> <<>>, err |-> "UnwrapNone"]
    ELSE [params |-> [k \in 1..Len(m.param_names) |->
                         <<m.param_names[k], m.param_values[k]>>],
          err |-> "ok"]

\* Node::search.  The outcome is [kind |-> "none"], [kind |-> "found", value,
\* params] or [kind |-> "panic", err].
search(tree, method, path) ==
    LET match_result == internal_search(tree, method, strip_start_slash(path))
    IN IF match_result.err # "ok"
       THEN [kind |-> "panic", err |-> match_result.err]
       ELSE IF ~match_result.some
       THEN [kind |-> "none"]
       ELSE IF match_result.value = NoHandler
       THEN [kind |-> "panic", err |-> "UnwrapNone"]
       ELSE IF from_params(match_result).err # "ok"
       THEN [kind |-> "panic", err |-> from_params(match_result).err]
       ELSE [kind |-> "found", value |-> match_result.value,
             params |-> from_params(match_result).params]

\* Node::insert, Node::remove, Node::update on the root: [node, err].
insert(tree, method, path, value) ==
    insert_path(tree, method, strip_start_slash(path), value, <<>>)

remove(tree, path) == remove_path(tree, strip_start_slash(path))

update(tree, method, path, value) ==
    update_path(tree, method, strip_start_slash(path), value)

(***************************************************************************)
(* The route table as a state machine.                                     *)
(*                                                                         *)
(* root is the tree.  call is the last call made and result its outcome.   *)
(* routes is a history variable: the registrations that returned normally  *)
(* and were not removed since, each with the path as it was passed (less   *)
(* the leading separator).                                                 *)
(*                                                                         *)
(* The tree has one writer and no concurrency of its own: a call is made   *)
(* when no call is outstanding, and Return hands its result to the caller. *)
(* A panic is fatal: tree.rs catches none, so a state whose result is a    *)
(* panic has no successor.                                                 *)
(***************************************************************************)

\* The most routes registered at one time.
MaxRoutes == 3

\* The paths the registration calls pass, and the paths the lookups pass.
\* Literal, parameter and wildcard routes under one prefix, and the root.
Patterns ==
    { <<"/">>,
      <<"/", "a", "/", "b">>,
      <<"/", "a", "/", "$", "p">>,
      <<"/", "$", "q", "/", "b">>,
      <<"/", "a", "/", "*">> }

Lookups ==
    { <<"/">>,
      <<"/", "a", "/">>,
      <<"/", "a", "/", "b">>,
      <<"/", "a", "/", "c">>,
      <<"/", "c", "/", "b">>,
      <<"/", "a", "/", "b", "/", "c">> }

\* Routes whose parameters are named differently: with a parameter leaf, a
\* static leaf and a trailing wildcard.
ParamPatterns ==
    { <<"/", "$", "p">>,
      <<"/", "$", "q">>,
      <<"/", "$", "p", "/", "b">>,
      <<"/", "$", "q", "/", "b">>,
      <<"/", "$", "p", "/", "*">>,
      <<"/", "$", "q", "/", "*">> }

ParamLookups ==
    { <<"/", "b">>,
      <<"/", "b", "/">>,
      <<"/", "c", "/", "b">>,
      <<"/", "b", "/", "c">> }

\* Paths that share a prefix inside a segment, one of them with a '*' that
\* does not start its segment.
SplitPatterns ==
    { <<"/", "a">>,
      <<"/", "a", "b">>,
      <<"/", "a", "c">>,
      <<"/", "a", "*">> }

SplitLookups ==
    { <<"/", "a">>,
      <<"/", "a", "b">>,
      <<"/", "a", "c">>,
      <<"/", "a", "*">> }

\* A wildcard route, and a path with characters after the '*'.
StarPatterns ==
    { <<"/", "a", "/", "b">>,
      <<"/", "a", "/", "*">>,
      <<"/", "a", "/", "*", "b">> }

StarLookups ==
    { <<"/", "a", "/", "b">>,
      <<"/", "a", "/", "c">>,
      <<"/", "a", "/", "*", "b">> }

\* Routes with two parameters, in both orders of the names, and lookups with
\* an empty segment where a parameter stands.
TwoPatterns ==
    { <<"/", "$", "p">>,
      <<"/", "$", "p", "/", "$", "q">>,
      <<"/", "$", "q", "/", "$", "p">>,
      <<"/", "$", "p", "/", "b">> }

TwoLookups ==
    { <<"/", "b">>,
      <<"/", "b", "/">>,
      <<"/", "b", "/", "c">>,
      <<"/", "c", "/", "b">>,
      <<"/", "/", "b">> }

\* Literal paths whose common prefixes nest (as /apple, /application and
\* /ape do), and three values.
PrefixPatterns ==
    { <<"/", "a", "b", "c">>,
      <<"/", "a", "b", "d">>,
      <<"/", "a", "e">> }

PrefixLookups ==
    { <<"/", "a", "b", "c">>,
      <<"/", "a", "b", "d">>,
      <<"/", "a", "e">>,
      <<"/", "a", "b">> }

PrefixValues == {"H1", "H2", "H3"}

\* Literal segments with a common prefix below a parameter, beside a second
\* parameter: the nodes that a split or a merge moves carry names.
DeepPatterns ==
    { <<"/", "$", "p", "/", "b", "c">>,
      <<"/", "$", "p", "/", "b", "d">>,
      <<"/", "$", "p", "/", "$", "q">> }

DeepLookups ==
    { <<"/", "b", "/", "b", "c">>,
      <<"/", "b", "/", "b", "d">>,
      <<"/", "b", "/", "c">> }

\* Wildcards at the root, under a literal segment and under a parameter, and
\* a route that ends at the node that owns a wildcard; lookups that end at
\* the owning nodes and lookups that go past them.
WildPatterns ==
    { <<"/", "*">>,
      <<"/", "a", "/">>,
      <<"/", "a", "/", "*">>,
      <<"/", "$", "p", "/", "*">> }

WildLookups ==
    { <<"/">>,
      <<"/", "a", "/">>,
      <<"/", "a", "/", "b">>,
      <<"/", "b", "/">>,
      <<"/", "b", "/", "c">> }

AllLookups ==
    Lookups \cup ParamLookups \cup SplitLookups \cup StarLookups \cup TwoLookups
        \cup PrefixLookups

NoCall == [op |-> "idle", method |-> "-", path |-> <<>>, value |-> "-"]

Ok == [kind |-> "ok"]

Panic(err) == [kind |-> "panic", err |-> err]

Outcome(err) == IF err = "ok" THEN Ok ELSE Panic(err)

Idle == call = NoCall /\ result.kind = "ok"

RECURSIVE Shape(_)
\* A registered path with every parameter name dropped: the branch a $name
\* segment selects does not depend on the name.
Shape(path) ==
    IF path = <<>> THEN <<>>
    ELSE IF path[1] = "/" THEN <<"/">> \o Shape(Skip(path, 1))
    ELSE IF path[1] = "$" THEN <<"$">> \o Shape(Skip(path, SlashPos(path)))
    ELSE Take(path, SlashPos(path)) \o Shape(Skip(path, SlashPos(path)))

Registered(rs, method, path) ==
    \E r \in rs : r.method = method /\ r.path = strip_start_slash(path)


(***************************************************************************)
(* The path syntax of the routes, used to state the claims: a registered   *)
(* path is a list of segments separated by '/'; a segment that starts with *)
(* '$' is a parameter, a last segment that is exactly "*" is the wildcard, *)
(* any other segment is literal.                                           *)
(***************************************************************************)
NoInst == [ok |-> FALSE, params |-> <<>>, kinds |-> <<>>]

RECURSIVE Inst(_, _)
\* Whether the lookup path instantiates the registered path: every parameter
\* segment replaced by a non-empty text without '/', the wildcard by the
\* non-empty remainder.  params are the (name, value) pairs from left to
\* right; kinds lists, segment by segment, 0 for a literal, 1 for a
\* parameter and 2 for the wildcard.
Inst(pattern, path) ==
    IF pattern = <<>>
    THEN [ok |-> path = <<>>, params |-> <<>>, kinds |-> <<>>]
    ELSE IF pattern[1] = "/"
    THEN IF path # <<>> /\ path[1] = "/"
         THEN Inst(Skip(pattern, 1), Skip(path, 1))
         ELSE NoInst
    ELSE LET seg == Take(pattern, SlashPos(pattern))
             rest == Skip(pattern, SlashPos(pattern))
             text == Take(path, SlashPos(path))
             tail == Inst(rest, Skip(path, SlashPos(path)))
         IN IF seg[1] = "$"
            THEN IF text # <<>> /\ tail.ok
                 THEN [ok |-> TRUE,
                       params |-> <<<<Skip(seg, 1), text>>>> \o tail.params,
                       kinds |-> <<1>> \o tail.kinds]
                 ELSE NoInst
            ELSE IF seg = <<"*">> /\ rest = <<>>
            THEN [ok |-> path # <<>>, params |-> <<>>, kinds |-> <<2>>]
            ELSE IF text = seg /\ tail.ok
            THEN [ok |-> TRUE, params |-> tail.params, kinds |-> <<0>> \o tail.kinds]
            ELSE NoInst

\* The routes of a method that a lookup path instantiates.
Candidates(rs, method, path) ==
    {r \in rs : r.method = method /\ Inst(r.path, strip_start_slash(path)).ok}

RECURSIVE Before(_, _)
\* The order in which the branch kinds are tried, segment by segment.
Before(k1, k2) ==
    IF k1 = <<>> \/ k2 = <<>> THEN FALSE
    ELSE IF k1[1] # k2[1] THEN k1[1] < k2[1]
    ELSE Before(Skip(k1, 1), Skip(k2, 1))

Found(r, path) ==
    [kind |-> "found", value |-> r.value,
     params |-> Inst(r.path, strip_start_slash(path)).params]

Init ==
    /\ root = NewNode
    /\ routes = {}
    /\ call = NoCall
    /\ result = Ok

Insert(method, path, value) ==
    LET r == insert(root, method, path, value)
        added == IF r.err = "ok"
                 THEN routes \cup {[method |-> method,
                                    path |-> strip_start_slash(path),
                                    value |-> value]}
                 ELSE routes
    IN /\ Idle
       /\ Cardinality(added) <= MaxRoutes
       /\ root' = r.node
       /\ routes' = added
       /\ call' = [op |-> "insert", method |-> method, path |-> path, value |-> value]
       /\ result' = Outcome(r.err)

Remove(path) ==
    LET r == remove(root, path)
    IN /\ Idle
       /\ root' = r.node
       /\ routes' = {x \in routes : Shape(x.path) # Shape(strip_start_slash(path))}
       /\ call' = [op |-> "remove", method |-> "-", path |-> path, value |-> "-"]
       /\ result' = Outcome(r.err)

Update(method, path, value) ==
    LET r == update(root, method, path, value)
        hit == {x \in routes : x.method = method
                               /\ Shape(x.path) = Shape(strip_start_slash(path))}
    IN /\ Idle
       /\ root' = r.node
       /\ routes' = IF r.err = "ok" /\ r.node # root
                    THEN (routes \ hit) \cup {[x EXCEPT !.value = value] : x \in hit}
                    ELSE routes
       /\ call' = [op |-> "update", method |-> method, path |-> path, value |-> value]
       /\ result' = Outcome(r.err)

Search(method, path) ==
    /\ Idle
    /\ call' = [op |-> "search", method |-> method, path |-> path, value |-> "-"]
    /\ result' = search(root, method, path)
    /\ UNCHANGED <<root, routes>>

\* The caller takes the result of the call that returned.
Return ==
    /\ call # NoCall
    /\ result.kind # "panic"
    /\ call' = NoCall
    /\ result' = Ok
    /\ UNCHANGED <<root, routes>>

NextOver(patterns, lookups) ==
    \/ \E method \in Methods, path \in patterns, value \in Values :
           Insert(method, path, value)
    \/ \E path \in patterns : Remove(path)
    \/ \E method \in Methods, path \in patterns, value \in Values :
           Update(method, path, value)
    \/ \E method \in Methods, path \in lookups : Search(method, path)
    \/ Return

Next == NextOver(Patterns, Lookups)

Spec == Init /\ [][Next]_vars

NextParams == NextOver(ParamPatterns, ParamLookups)

SpecParams == Init /\ [][NextParams]_vars

NextSplit == NextOver(SplitPatterns, SplitLookups)

SpecSplit == Init /\ [][NextSplit]_vars

NextStar == NextOver(StarPatterns, StarLookups)

SpecStar == Init /\ [][NextStar]_vars

NextTwo == NextOver(TwoPatterns, TwoLookups)

SpecTwo == Init /\ [][NextTwo]_vars

NextDeep == NextOver(DeepPatterns, DeepLookups)

SpecDeep == Init /\ [][NextDeep]_vars

NextWild == NextOver(WildPatterns, WildLookups)

SpecWild == Init /\ [][NextWild]_vars

NextPrefix ==
    \/ \E method \in Methods, path \in PrefixPatterns, value \in PrefixValues :
           Insert(method, path, value)
    \/ \E path \in PrefixPatterns : Remove(path)
    \/ \E method \in Methods, path \in PrefixPatterns, value \in PrefixValues :
           Update(method, path, value)
    \/ \E method \in Methods, path \in PrefixLookups : Search(method, path)
    \/ Return

SpecPrefix == Init /\ [][NextPrefix]_vars


(***************************************************************************)
(* The routes a tree holds, read off its nodes: one for each handler, with *)
(* the path that leads to its node (the segments of the static nodes, a    *)
(* '$' segment for a parameter child, "*" for a wildcard child) and the    *)
(* parameter names its node stores.                                        *)
(***************************************************************************)
ParamMark == "<param>"

RECURSIVE Fill(_, _)
Fill(shape, names) ==
    IF shape = <<>> THEN <<>>
    ELSE IF shape[1] = ParamMark
    THEN <<"$">> \o (IF names = <<>> THEN <<>> ELSE names[1])
             \o Fill(Skip(shape, 1), Skip(names, 1))
    ELSE <<shape[1]>> \o Fill(Skip(shape, 1), names)

Route(method, path, value) == [method |-> method, path |-> path, value |-> value]

RECURSIVE StoredUnder(_, _)
StoredUnder(node, shape) ==
    LET names == IF node.leaf_param_names = <<>> THEN <<>>
                 ELSE node.leaf_param_names[1]
    IN {Route(m, Fill(shape, names), node.leaf_handler[m]) :
            m \in {x \in Methods : node.leaf_handler[x] # NoHandler}}
       \cup UNION {StoredUnder(node.static_child[i],
                               shape \o node.static_child[i].path) :
                       i \in 1..Len(node.static_child)}
       \cup (IF node.param_child = <<>> THEN {}
             ELSE StoredUnder(node.param_child[1], shape \o <<ParamMark>>))
       \cup (IF node.star_child = <<>> THEN {}
             ELSE StoredUnder(node.star_child[1], shape \o <<"*">>))

Stored(tree) == StoredUnder(tree, <<>>)

(***************************************************************************)
(* The claims.                                                             *)
(***************************************************************************)
Kinds(r, path) == Inst(r.path, strip_start_slash(path)).kinds

\* The candidates that no other candidate precedes in the order of the
\* branch kinds.
First(C, path) == {r \in C : \A o \in C : ~Before(Kinds(o, path), Kinds(r, path))}

EndsInWildcard(path) == path # <<>> /\ path[Len(path)] = "*"

SameShape(rs, path) == {r \in rs : Shape(r.path) = Shape(strip_start_slash(path))}

\* C1: between calls that all returned normally, every registered route is
\* returned, with the bindings of its own parameter names, for every lookup
\* path that instantiates it; stated for the lookup paths that instantiate
\* no other route of the method, where no precedence decides.
C1_RegisteredRouteFound ==
    Idle =>
        \A r \in routes, path \in AllLookups :
            Candidates(routes, r.method, path) = {r}
                => search(root, r.method, path) = Found(r, path)

\* C2: a lookup returns the route the tree holds that comes first in the
\* order static, parameter, wildcard, decided segment by segment from the
\* left; with GET /a/b, GET /a/$p and GET /a/* in the tree, /a/b returns the
\* first, /a/c the second with p = c, and /a/b/c the third.
C2_Precedence ==
    Idle =>
        /\ \A m \in Methods, path \in AllLookups :
               Candidates(Stored(root), m, path) # {}
                   => \E r \in First(Candidates(Stored(root), m, path), path) :
                          search(root, m, path) = Found(r, path)
        /\ \A v1, v2, v3 \in Values :
               {Route("GET", <<"a", "/", "b">>, v1),
                Route("GET", <<"a", "/", "$", "p">>, v2),
                Route("GET", <<"a", "/", "*">>, v3)} \subseteq Stored(root)
                   => /\ search(root, "GET", <<"/", "a", "/", "b">>)
                            = [kind |-> "found", value |-> v1, params |-> <<>>]
                      /\ search(root, "GET", <<"/", "a", "/", "c">>)
                            = [kind |-> "found", value |-> v2,
                               params |-> <<<<<<"p">>, <<"c">>>>>>]
                      /\ search(root, "GET", <<"/", "a", "/", "b", "/", "c">>)
                            = [kind |-> "found", value |-> v3, params |-> <<>>]

\* C2's case: the three routes of the scenario are registered for GET, the
\* static and the wildcard one with different values, and /a/b returns the
\* static one.
C2_Witness ==
    /\ Idle
    /\ {Route("GET", <<"a", "/", "b">>, "H1"),
        Route("GET", <<"a", "/", "$", "p">>, "H2"),
        Route("GET", <<"a", "/", "*">>, "H2")} \subseteq Stored(root)
    /\ search(root, "GET", <<"/", "a", "/", "b">>).value = "H1"

\* C3: when the lookup path is, literally, a path the tree holds for other
\* methods only, the lookup does not stop at that leaf: it returns the first
\* parameter or wildcard route of the requested method that the path
\* instantiates.
C3_Backtracking ==
    Idle =>
        \A m \in Methods, path \in AllLookups :
            (/\ \E r \in Stored(root) : r.path = strip_start_slash(path) /\ r.method # m
             /\ \A r \in Stored(root) : r.path = strip_start_slash(path) => r.method # m
             /\ Candidates(Stored(root), m, path) # {})
                => /\ search(root, m, path).kind = "found"
                   /\ \E r \in First(Candidates(Stored(root), m, path), path) :
                          /\ r.path # strip_start_slash(path)
                          /\ search(root, m, path) = Found(r, path)

\* C3's case: POST /a/b and GET /a/$p are registered, GET /a/b is not, and the
\* lookup of GET /a/b returns the parameter route with p = b.
C3_Witness ==
    /\ Idle
    /\ Route("POST", <<"a", "/", "b">>, "H1") \in Stored(root)
    /\ Route("GET", <<"a", "/", "$", "p">>, "H2") \in Stored(root)
    /\ ~Registered(Stored(root), "GET", <<"a", "/", "b">>)
    /\ search(root, "GET", <<"/", "a", "/", "b">>)
           = [kind |-> "found", value |-> "H2", params |-> <<<<<<"p">>, <<"b">>>>>>]

\* C4: a search never panics.
C4_SearchNeverFails == call.op = "search" => result.kind # "panic"

\* C5: an update of a (method, path) for which the tree holds no handler
\* panics.
C5_UpdateWithoutHandlerFails ==
    [][(call'.op = "update"
        /\ \A r \in SameShape(Stored(root), call'.path) : r.method # call'.method)
           => result'.kind = "panic"]_vars

\* C6: after remove(p) the tree holds no handler at p, for any method, and a
\* lookup of p itself returns none of them.
C6_RemovedNotFound ==
    (call.op = "remove" /\ result.kind = "ok") =>
        /\ SameShape(Stored(root), call.path) = {}
        /\ \A m \in Methods :
               search(root, m, call.path).kind = "found"
                   => \E r \in Stored(root) \ SameShape(Stored(root), call.path) :
                          r.method = m /\ r.value = search(root, m, call.path).value

\* C7: remove(p) changes no lookup that returned a route held at another
\* path.
C7_RemoveKeepsOtherRoutes ==
    [][call'.op = "remove" =>
        \A m \in Methods, path \in AllLookups :
            (\E r \in First(Candidates(Stored(root), m, path), path) :
                 /\ r \notin SameShape(Stored(root), call'.path)
                 /\ search(root, m, path) = Found(r, path))
                => search(root', m, path) = search(root, m, path)]_vars

\* C8: remove of a path at which the tree holds no route returns normally and
\* changes no lookup.
C8_RemoveUnregisteredIsNoOp ==
    [][(call'.op = "remove" /\ SameShape(Stored(root), call'.path) = {}) =>
        /\ result'.kind = "ok"
        /\ \A m \in Methods, path \in AllLookups :
               search(root', m, path) = search(root, m, path)]_vars

\* C9: registering a (method, path) that the tree holds panics with the
\* duplicate-route error and changes nothing.
C9_DuplicateRejected ==
    [][(call'.op = "insert" /\ Registered(Stored(root), call'.method, call'.path)) =>
        /\ result' = Panic("DuplicateRoute")
        /\ root' = root]_vars

\* C10: registering a path that does not end in the wildcard, at the leaf of
\* a held path whose parameter names differ, panics with the ambiguity error
\* whatever the method; with the same names and a method the leaf does not
\* hold yet, it returns normally and the tree holds the route.
C10_AmbiguousNamesRejected ==
    [][(call'.op = "insert" /\ ~EndsInWildcard(call'.path)) =>
        /\ (\E r \in SameShape(Stored(root), call'.path) :
                r.path # strip_start_slash(call'.path))
               => result' = Panic("AmbiguousParams")
        /\ (/\ SameShape(Stored(root), call'.path) # {}
            /\ \A r \in SameShape(Stored(root), call'.path) :
                   r.path = strip_start_slash(call'.path) /\ r.method # call'.method)
               => /\ result' = Ok
                  /\ Route(call'.method, strip_start_slash(call'.path), call'.value)
                         \in Stored(root')]_vars

\* C10's case: a registration panicked as ambiguous, the routes of the tree
\* being of the other method only.
C10_Witness ==
    /\ call.op = "insert"
    /\ result = Panic("AmbiguousParams")
    /\ Stored(root) # {}
    /\ \A r \in Stored(root) : r.method # call.method

\* C11: a lookup that finds a route returns one binding for each parameter
\* of the route's registered path, in the order of the path: the i-th pairs
\* the i-th parameter name with the i-th segment a parameter consumed.
C11_BindingOrder ==
    Idle =>
        \A m \in Methods, path \in AllLookups :
            search(root, m, path).kind = "found"
                => \E r \in First(Candidates(routes, m, path), path) :
                       search(root, m, path).params = Found(r, path).params

IsLiteral(path) == \A i \in 1..Len(path) : path[i] \notin {"$", "*"}

\* C12: a registration of a literal path that returns normally changes no
\* lookup that found a route, the lookups that the new route itself answers
\* apart; and once /abc, /abd and /ae (prefixes nested as those of /apple,
\* /application and /ape) are registered for a method, each is found with
\* its own value.
C12_SplitKeepsRoutes ==
    [][/\ (call'.op = "insert" /\ result' = Ok /\ IsLiteral(call'.path))
           => \A m \in Methods, path \in AllLookups :
                  (/\ search(root, m, path).kind = "found"
                   /\ ~(m = call'.method
                        /\ Inst(strip_start_slash(call'.path),
                                strip_start_slash(path)).ok))
                      => search(root', m, path) = search(root, m, path)
       /\ \A m \in Methods, v1, v2, v3 \in PrefixValues :
              (/\ result' = Ok
               /\ {Route(m, <<"a", "b", "c">>, v1),
                   Route(m, <<"a", "b", "d">>, v2),
                   Route(m, <<"a", "e">>, v3)} \subseteq routes')
                  => /\ search(root', m, <<"/", "a", "b", "c">>)
                           = [kind |-> "found", value |-> v1, params |-> <<>>]
                     /\ search(root', m, <<"/", "a", "b", "d">>)
                           = [kind |-> "found", value |-> v2, params |-> <<>>]
                     /\ search(root', m, <<"/", "a", "e">>)
                           = [kind |-> "found", value |-> v3, params |-> <<>>]]_vars

\* C12's case: /abc, /abd and /ae were registered in this order with three
\* different values, the last registration has just returned, and the node
\* of the common prefix "a" has the two children "b" and "e".
C12_Witness ==
    /\ call.op = "insert" /\ call.path = <<"/", "a", "e">> /\ result = Ok
    /\ routes = {Route("GET", <<"a", "b", "c">>, "H1"),
                 Route("GET", <<"a", "b", "d">>, "H2"),
                 Route("GET", <<"a", "e">>, "H3")}
    /\ Len(root.static_child) = 1
    /\ root.static_child[1].path = <<"a">>
    /\ root.static_child[1].static_indices = <<"b", "e">>
    /\ search(root, "GET", <<"/", "a", "b", "c">>).value = "H1"

RECURSIVE Structure(_)
\* The tree without its handlers: the nodes with their segments, keys,
\* branches and parameter names.
Structure(node) ==
    [node EXCEPT
        !.leaf_handler = [m \in Methods |-> NoHandler],
        !.static_child = [i \in 1..Len(node.static_child) |->
                             Structure(node.static_child[i])],
        !.param_child = [i \in 1..Len(node.param_child) |->
                            Structure(node.param_child[i])],
        !.star_child = [i \in 1..Len(node.star_child) |->
                           Structure(node.star_child[i])]]

\* C13: an update of a (method, path) the tree holds returns normally and
\* replaces the value of that handler only: the routes of the tree are the
\* same but for that value, the tree without its handlers is unchanged,
\* every lookup that returned the route returns it with the new value, and
\* no other lookup changes.
C13_UpdateReplacesOnlyValue ==
    [][call'.op = "update" =>
        LET held == Stored(root)
        IN \A r \in held :
            (r.method = call'.method /\ r.path = strip_start_slash(call'.path))
                => /\ result' = Ok
                   /\ Stored(root') = (held \ {r}) \cup {[r EXCEPT !.value = call'.value]}
                   /\ Structure(root') = Structure(root)
                   /\ \A m \in Methods, path \in AllLookups :
                          LET before == search(root, m, path)
                              after == search(root', m, path)
                          IN /\ \/ after = before
                                \/ /\ m = r.method
                                   /\ before.kind = "found"
                                   /\ before.value = r.value
                                   /\ after = [before EXCEPT !.value = call'.value]
                             /\ (/\ before = Found(r, path)
                                 /\ r \in First(Candidates(held, m, path), path))
                                    => after = Found([r EXCEPT !.value = call'.value],
                                                     path)]_vars

\* C13's case: an update has returned normally, it changed the value of a
\* route with two parameters, the same leaf holds a handler for the other
\* method with the old value, and the tree holds a third route.
C13_Witness ==
    /\ call.op = "update" /\ result = Ok
    /\ call.path = <<"/", "$", "p", "/", "$", "q">>
    /\ call.method = "GET" /\ call.value = "H2"
    /\ Stored(root) = {Route("GET", <<"$", "p", "/", "$", "q">>, "H2"),
                       Route("POST", <<"$", "p", "/", "$", "q">>, "H1"),
                       Route("GET", <<"$", "p", "/", "b">>, "H1")}

RECURSIVE InstEmpty(_, _)
\* Whether the lookup path would instantiate the registered path if a
\* parameter segment could stand for the empty text.
InstEmpty(pattern, path) ==
    IF pattern = <<>> THEN path = <<>>
    ELSE IF pattern[1] = "/"
    THEN path # <<>> /\ path[1] = "/" /\ InstEmpty(Skip(pattern, 1), Skip(path, 1))
    ELSE LET seg == Take(pattern, SlashPos(pattern))
             rest == Skip(pattern, SlashPos(pattern))
             text == Take(path, SlashPos(path))
         IN IF seg[1] = "$" THEN InstEmpty(rest, Skip(path, SlashPos(path)))
            ELSE IF seg = <<"*">> /\ rest = <<>> THEN path # <<>>
            ELSE text = seg /\ InstEmpty(rest, Skip(path, SlashPos(path)))

\* C14: no binding a lookup returns has the empty text as its value, and a
\* lookup path that instantiates routes of the tree only with the empty text
\* at a parameter is not found.
C14_EmptyParamNeverMatches ==
    Idle =>
        \A m \in Methods, path \in AllLookups :
            LET found == search(root, m, path)
                held == Stored(root)
            IN /\ found.kind = "found"
                      => \A k \in 1..Len(found.params) : found.params[k][2] # <<>>
               /\ (/\ Candidates(held, m, path) = {}
                   /\ \E r \in held :
                          r.method = m /\ InstEmpty(r.path, strip_start_slash(path)))
                      => found.kind = "none"

\* C14's case: the tree holds GET /$p/$q and no other GET route, /b/c is
\* found, and neither /b/, whose second segment is empty, nor //b, whose
\* first segment is empty, is.
C14_Witness ==
    /\ Idle
    /\ \E v \in Values :
           {r \in Stored(root) : r.method = "GET"}
               = {Route("GET", <<"$", "p", "/", "$", "q">>, v)}
    /\ search(root, "GET", <<"/", "b", "/", "c">>).kind = "found"
    /\ search(root, "GET", <<"/", "b", "/">>).kind = "none"
    /\ search(root, "GET", <<"/", "/", "b">>).kind = "none"

RECURSIVE WellKeyed(_)
\* At the node and below it: as many keys as static children, the i-th key
\* the first character of the i-th child's segment, no key twice.
WellKeyed(node) ==
    /\ Len(node.static_indices) = Len(node.static_child)
    /\ \A i \in 1..Len(node.static_child) :
           /\ node.static_child[i].path # <<>>
           /\ i <= Len(node.static_indices)
           /\ node.static_indices[i] = node.static_child[i].path[1]
           /\ WellKeyed(node.static_child[i])
    /\ \A i, j \in 1..Len(node.static_indices) :
           node.static_indices[i] = node.static_indices[j] => i = j
    /\ \A i \in 1..Len(node.param_child) : WellKeyed(node.param_child[i])
    /\ \A i \in 1..Len(node.star_child) : WellKeyed(node.star_child[i])

\* C15: in every state, at every node, the key list and the list of static
\* children have the same length, the i-th key is the first character of
\* the i-th child's non-empty segment, and the keys are pairwise distinct.
C15_StaticKeysMatchChildren == WellKeyed(root)

RECURSIVE NoDeadStatic(_)
\* No static child, at the node or below it, is without handlers and
\* without children of every kind.
NoDeadStatic(node) ==
    /\ \A i \in 1..Len(node.static_child) :
           /\ \/ \E m \in Methods : node.static_child[i].leaf_handler[m] # NoHandler
              \/ node.static_child[i].static_child # <<>>
              \/ node.static_child[i].param_child # <<>>
              \/ node.static_child[i].star_child # <<>>
           /\ NoDeadStatic(node.static_child[i])
    /\ \A i \in 1..Len(node.param_child) : NoDeadStatic(node.param_child[i])
    /\ \A i \in 1..Len(node.star_child) : NoDeadStatic(node.star_child[i])

\* C16: when a remove has returned, no static node of the tree, the root
\* apart, is without handlers and without children.
C16_NoDeadStaticNode ==
    (call.op = "remove" /\ result = Ok) => NoDeadStatic(root)

\* C16's case: remove(/$p/b) has returned and pruned the static nodes under
\* the parameter node, which still has the name p it was created with while
\* the only route left, on that node, is /$q.
C16_Witness ==
    /\ call.op = "remove" /\ result = Ok
    /\ call.path = <<"/", "$", "p", "/", "b">>
    /\ root.param_child # <<>>
    /\ root.param_child[1].path = <<"p">>
    /\ root.param_child[1].static_child = <<>>
    /\ \E v \in Values : Stored(root) = {Route("GET", <<"$", "q">>, v)}

RECURSIVE NamesCount(_, _)
\* At the node, reached through count parameter children, and below it: a
\* node with handlers and a list of names has count names.
NamesCount(node, count) ==
    /\ (~HandlerIsEmpty(node) /\ node.leaf_param_names # <<>>)
           => Len(node.leaf_param_names[1]) = count
    /\ \A i \in 1..Len(node.static_child) : NamesCount(node.static_child[i], count)
    /\ \A i \in 1..Len(node.param_child) : NamesCount(node.param_child[i], count + 1)
    /\ \A i \in 1..Len(node.star_child) : NamesCount(node.star_child[i], count)

\* C17: in every state, every node with handlers and a list of parameter
\* names has as many names as there are parameter children on the way from
\* the root to it, and no registration has failed on the number of names.
C17_NamesCountMatchesDepth ==
    /\ NamesCount(root, 0)
    /\ result # Panic("ParamCountBug")

\* C17's case: /$p/bc, /$p/bd and /$p/$q are registered; the split of "bc"
\* has moved the leaf of /$p/bc below the node of "b", and each leaf holds
\* as many names as it has parameters; the last registration has returned
\* normally.
C17_Witness ==
    /\ call.op = "insert" /\ result = Ok
    /\ \E v1, v2, v3 \in Values :
           Stored(root) = {Route("GET", <<"$", "p", "/", "b", "c">>, v1),
                           Route("GET", <<"$", "p", "/", "b", "d">>, v2),
                           Route("GET", <<"$", "p", "/", "$", "q">>, v3)}
    /\ root.param_child[1].static_child[1].static_child[1].path = <<"b">>
    /\ root.param_child[1].static_child[1].static_child[1].static_child[1]
           .leaf_param_names = <<<<<<"p">>>>>>
    /\ root.param_child[1].static_child[1].param_child[1]
           .leaf_param_names = <<<<<<"p">>, <<"q">>>>>>

\* C18: registering a path that ends in the wildcard, at the wildcard leaf
\* of a held path whose parameter names differ, panics with the ambiguity
\* error, and no registration changes the names with which the routes held
\* on a wildcard leaf are returned.
C18_WildcardAmbiguityRejected ==
    [][(call'.op = "insert" /\ EndsInWildcard(call'.path)) =>
        /\ (\E r \in SameShape(Stored(root), call'.path) :
                r.path # strip_start_slash(call'.path))
               => result' = Panic("AmbiguousParams")
        /\ \A r \in Stored(root) : EndsInWildcard(r.path) => r \in Stored(root')]_vars

RECURSIVE StarsUnder(_, _)
\* The routes whose handlers are on wildcard children, at the node and below
\* it.
StarsUnder(node, shape) ==
    UNION {StarsUnder(node.static_child[i], shape \o node.static_child[i].path) :
               i \in 1..Len(node.static_child)}
    \cup (IF node.param_child = <<>> THEN {}
          ELSE StarsUnder(node.param_child[1], shape \o <<ParamMark>>))
    \cup (IF node.star_child = <<>> THEN {}
          ELSE StoredUnder(node.star_child[1], shape \o <<"*">>))

\* C19: a remove keeps every handler that is on a wildcard child and whose
\* path is not the removed one: it is on a wildcard child afterwards, and
\* every lookup that returned it returns it.
C19_MergeKeepsWildcard ==
    [][call'.op = "remove" =>
        LET held == Stored(root)
        IN \A r \in StarsUnder(root, <<>>) :
            Shape(r.path) # Shape(strip_start_slash(call'.path))
                => /\ r \in StarsUnder(root', <<>>)
                   /\ \A path \in AllLookups :
                          (/\ r \in First(Candidates(held, r.method, path), path)
                           /\ search(root, r.method, path) = Found(r, path))
                              => search(root', r.method, path) = Found(r, path)]_vars

\* C20: an insert that fails leaves the tree exactly as it was before the
\* call, and every node's static key list still corresponds to its child
\* list.
C20_FailedInsertLeavesTree ==
    [][(call'.op = "insert" /\ result'.kind = "panic")
          => (root' = root /\ WellKeyed(root'))]_vars

\* The path of a wildcard route up to its '*': the path that leads to the
\* node that owns the wildcard child.
OwnerPath(r) == Take(r.path, Len(r.path) - 1)

\* C21: between calls, a lookup whose path ends exactly at the node that owns
\* a wildcard child does not return the wildcard's handler (what it finds is
\* the answer of another route that the path instantiates), and a lookup the
\* wildcard answers carries the bindings of the route's parameters only.
C21_WildcardNeedsRemainder ==
    Idle =>
        LET held == Stored(root)
        IN \A r \in StarsUnder(root, <<>>) : \A path \in AllLookups :
               LET res == search(root, r.method, path)
                   C == Candidates(held, r.method, path)
               IN /\ (/\ Inst(OwnerPath(r), strip_start_slash(path)).ok
                      /\ res.kind = "found")
                         => \E o \in C \ {r} : res = Found(o, path)
                  /\ (r \in First(C, path) /\ res.kind = "found")
                         => res.params = Found(r, path).params

\* The lookup /a/ ends at the node that owns the wildcard of /a/*, which also
\* holds a POST handler: GET /a/ is answered by the root's wildcard, and /
\* by nothing; /b/c is answered by /$p/* with the one binding p = b.
C21_Witness ==
    /\ Idle
    /\ Route("GET", <<"a", "/", "*">>, "H1") \in StarsUnder(root, <<>>)
    /\ Route("GET", <<"*">>, "H2") \in StarsUnder(root, <<>>)
    /\ Route("POST", <<"a", "/">>, "H1") \in Stored(root)
    /\ search(root, "GET", <<"/", "a", "/">>)
           = [kind |-> "found", value |-> "H2", params |-> <<>>]
    /\ search(root, "GET", <<"/">>) = [kind |-> "none"]
    /\ search(root, "GET", <<"/", "a", "/", "b">>)
           = [kind |-> "found", value |-> "H1", params |-> <<>>]

====
